---- MODULE Spec2Model ----
(***************************************************************************)
(* Hierarchical state machine runtime of src/fsm/core.py (StateMachine on  *)
(* top of transitions' HierarchicalGraphMachine): transitions, hooks,      *)
(* history, last-state recovery, tracked tasks and per-state timeouts.     *)
(***************************************************************************)
EXTENDS Bags, FiniteSets, Integers, Sequences, TLC

\* ------------------------------------------------------------------------
\* Bounds
\* ------------------------------------------------------------------------
\* largest number of tasks tracked at once (asyncio itself has no limit)
MaxTasks == 3

\* the history_size constructor argument used by the model
HistorySize == 2
MaxItems == 3
MaxSubscribers == 2

\* ------------------------------------------------------------------------
\* Names
\* ------------------------------------------------------------------------
None == "None"

READY == "ready"
FAULT == "fault"

START == "start"
RESET == "reset"
TO_FAULT == "to_fault"

separator == "_"

\* ------------------------------------------------------------------------
\* Constructor arguments: the state specs and the transition specs
\* ------------------------------------------------------------------------
\* (the machine is built with auto_transitions=False among its keyword
\* arguments, so that its triggers are the ones listed here)
\* names of the root state dicts passed as `states`
declared_states == <<"run", "done">>

\* state_spec.get("children", []) of the state dict with full name s
spec_children(s) ==
    CASE s = "run" -> <<"pick", "show", "deep">>
      [] s = "run_deep" -> <<"a">>
      [] OTHER -> <<>>

\* the "initial" key of the state dict with full name s
spec_initial(s) ==
    CASE s = "run" -> "pick"
      [] s = "run_deep" -> "a"
      [] OTHER -> None

\* the `transitions` argument, in list order
user_transitions ==
    << [trigger |-> START,    source |-> READY,      dest |-> "run",      before |-> <<>>],
       [trigger |-> "picked", source |-> "run_pick", dest |-> "run_show", before |-> <<>>],
       [trigger |-> "shown",  source |-> "run_show", dest |-> "run_deep", before |-> <<>>],
       [trigger |-> "stop",   source |-> "run",      dest |-> "done",     before |-> <<>>],
       [trigger |-> "again",  source |-> "done",     dest |-> "run_pick",
        before |-> <<"prepare">>] >>

\* @on_enter_state(s) handlers whose body fires a trigger synchronously
\* (QuizMachine.enter_presenting): the trigger, or None
enter_trigger(s) ==
    CASE s = "run_show" -> "shown"
      [] OTHER -> None

\* ------------------------------------------------------------------------
\* Sequence helpers
\* ------------------------------------------------------------------------
Range(s) == {s[i] : i \in DOMAIN s}

Reverse(s) == [i \in 1..Len(s) |-> s[Len(s) + 1 - i]]

Last(s) == s[Len(s)]

RECURSIVE Flatten(_)
Flatten(ss) == IF ss = <<>> THEN <<>> ELSE Head(ss) \o Flatten(Tail(ss))

\* ------------------------------------------------------------------------
\* The state graph built by HierarchicalGraphMachine.__init__
\* ------------------------------------------------------------------------
\* states=combined_states: the declared roots, then ready and fault
combined_states == declared_states \o <<READY, FAULT>>

full_name(parent_name, child_name) == parent_name \o separator \o child_name

child_names(s) == [i \in 1..Len(spec_children(s)) |-> full_name(s, spec_children(s)[i])]

\* every state of the graph, nested ones under their full names
Level1 == UNION {Range(child_names(s)) : s \in Range(combined_states)}
Level2 == UNION {Range(child_names(s)) : s \in Level1}
get_nested_state_names == Range(combined_states) \cup Level1 \cup Level2

\* the state whose children include s, None for a root
parent_of ==
    [s \in get_nested_state_names |->
       IF \E p \in get_nested_state_names : s \in Range(child_names(p))
       THEN CHOOSE p \in get_nested_state_names : s \in Range(child_names(p))
       ELSE None]

\* the names on the way from the root down to s
RECURSIVE path_from_root(_)
path_from_root(s) ==
    IF parent_of[s] = None THEN <<s>> ELSE path_from_root(parent_of[s]) \o <<s>>

state_path == [s \in get_nested_state_names |-> path_from_root(s)]

\* a machine that stops at the destination named by the transition
initial_chain_not_followed == [s \in get_nested_state_names |-> <<>>]

\* entering a compound state follows `initial` down
RECURSIVE follow_initial(_)
follow_initial(s) ==
    IF spec_initial(s) = None THEN <<>>
    ELSE LET c == full_name(s, spec_initial(s)) IN <<c>> \o follow_initial(c)

initial_chain == [s \in get_nested_state_names |-> follow_initial(s)]

\* a state with no children
Leaves == {s \in get_nested_state_names : spec_children(s) = <<>>}

\* ------------------------------------------------------------------------
\* The transition table
\* ------------------------------------------------------------------------
\* a wildcard that stands for the declared states only
add_transition_declared_only(trigger_name, source, dest, before) ==
    LET sources == IF source = "*" THEN declared_states ELSE <<source>>
    IN [i \in 1..Len(sources) |->
          [trigger |-> trigger_name, source |-> sources[i], dest |-> dest,
           before |-> before, after |-> <<>>]]

\* Machine.add_transition: a wildcard source stands for the states of the
\* machine's top level at the time of the call
add_transition(trigger_name, source, dest, before) ==
    LET sources == IF source = "*" THEN combined_states ELSE <<source>>
    IN [i \in 1..Len(sources) |->
          [trigger |-> trigger_name, source |-> sources[i], dest |-> dest,
           before |-> before, after |-> <<>>]]

\* the user's transitions, added by the base constructor
constructor_transitions ==
    Flatten([i \in 1..Len(user_transitions) |->
               add_transition(user_transitions[i].trigger, user_transitions[i].source,
                              user_transitions[i].dest, user_transitions[i].before)])

\* one recover__<parent>_<child> per child of each declared root
add_recovery_transitions ==
    Flatten([i \in 1..Len(declared_states) |->
       LET parent_name == declared_states[i]
       IN Flatten([j \in 1..Len(spec_children(parent_name)) |->
            LET full_state_name == full_name(parent_name, spec_children(parent_name)[j])
            IN add_transition("recover__" \o full_state_name, READY, full_state_name, <<>>)])])

\* hooks attached the other way round: the timeout cleanup first
attach_after_hooks_clear_first(ts) ==
    [i \in 1..Len(ts) |->
       [ts[i] EXCEPT !.after = @ \o <<"_attach_exit_timeout_clear", "_record_history_event">>]]

\* every transition gets the two `after` callbacks
attach_after_hooks(ts) ==
    [i \in 1..Len(ts) |->
       [ts[i] EXCEPT !.after = @ \o <<"_record_history_event", "_attach_exit_timeout_clear">>]]

\* the table at the end of StateMachine.__init__
transitions ==
    attach_after_hooks(
        constructor_transitions
        \o add_recovery_transitions
        \o add_transition(TO_FAULT, "*", FAULT, <<"cancel_tasks">>)
        \o add_transition(RESET, FAULT, READY, <<>>))

\* the triggers whose transitions carry a guard: @guard(Triggers.stop)
guarded == {"stop"}

\* the values a guard can return in a call of trigger `name`
guard_results(name) == IF name \in guarded THEN BOOLEAN ELSE {TRUE}

\* the trigger names the machine knows
events == {transitions[i].trigger : i \in 1..Len(transitions)}

\* ------------------------------------------------------------------------
\* State of one StateMachine instance
\* ------------------------------------------------------------------------
VARIABLES
    state,              \* self.state
    last_state,         \* self._last_state
    history,            \* self._history: entries [state, duration_ms (is it set)]
    current_start,      \* self._current_start is not None
    tasks,              \* self._tasks: a bag of tasks [state_name, trigger, status, held, mark]
    timeouts,           \* the keys of self._timeouts; the task of key s has held = TRUE
    enable_recovery,    \* self._enable_recovery
    history_size,       \* the history_size argument: <<>> for None, <<n>> for n
    auto_timeouts,      \* further states whose enter handler carries @auto_timeout(_, "reset")
    op,                 \* the latest call into the machine and how it ended
    script,             \* how much of start(); to_fault; reset the latest calls make up
    cancel_pc,          \* "awaiting" while a cancel_tasks() call is suspended, else "idle"
    topics,             \* StreamManager._topics, with what each subscriber has read
    handlers,           \* the stream handler of each subscriber: where it stands, its frames
    request,            \* the latest unary request and the response it got
    registry,           \* the RpcRegistry instances and the models of the process
    frame               \* the stream item serialized last, and its data frame payload

vars == <<state, last_state, history, current_start, tasks, timeouts,
          enable_recovery, history_size, auto_timeouts, op, script, cancel_pc, topics, handlers,
          request, registry, frame>>

\* what the calls into the state machine leave alone
services == <<topics, handlers, request, registry, frame>>

\* @on_enter_state(s) handlers that carry @auto_timeout(seconds, trigger):
\* the trigger, or None when s has no such handler
timeout_config(s) ==
    CASE s = "run_pick" -> TO_FAULT
      [] s \in auto_timeouts -> RESET
      [] OTHER -> None

\* A task object is described by what the program can see of it: the state
\* and trigger of its _timeout_task closure, how far it has run, and whether
\* it is the task self._timeouts holds for that state.  An entry of
\* self._timeouts whose task has finished and left self._tasks is a key of
\* `timeouts` with no held task.  mark tells what the running cancel_tasks()
\* call has done with the task: "listed" when it is in its list(self._tasks)
\* and not reached yet, "awaited" when the call cancelled it and awaits it.
TaskStatus == {"sleeping", "cancelling", "running", "finished"}

\* no callback of the call in progress raises
NoHook == [kind |-> "none", at |-> None]

\* the instance as a record, with the steps and the outcome of the call in
\* progress, and the callback that raises when the call runs it
Self ==
    [state |-> state, last_state |-> last_state, history |-> history,
     current_start |-> current_start, tasks |-> tasks, timeouts |-> timeouts,
     log |-> <<>>, error |-> None, overflow |-> FALSE,
     guard |-> TRUE, result |-> TRUE, rpc |-> [kind |-> "none"], raises |-> NoHook]

Log(m, entry) == [m EXCEPT !.log = Append(@, entry)]

\* a callback of the user runs: it returns, or it raises and the exception
\* leaves the trigger call
hook(m, kind, at) ==
    IF m.raises = [kind |-> kind, at |-> at] THEN [m EXCEPT !.error = "HookError"] ELSE m

\* ------------------------------------------------------------------------
\* Task tracking and timeouts
\* ------------------------------------------------------------------------
\* one tracked task replaced by its new description
Replace(bag, old, new) == (bag (-) SetToBag({old})) (+) SetToBag({new})

\* the tracked task that self._timeouts[state_name] refers to, if any
held_tasks(bag, state_name) ==
    {t \in BagToSet(bag) : t.state_name = state_name /\ t.held}

\* task.cancel(): only a task that is still waiting can be stopped
cancel(t) == IF t.status = "sleeping" THEN [t EXCEPT !.status = "cancelling"] ELSE t

\* the popped task, cancelled, is no longer the one self._timeouts holds
release(bag, held) ==
    IF held = {} THEN bag
    ELSE Replace(bag, CHOOSE h \in held : TRUE,
                 [cancel(CHOOSE h \in held : TRUE) EXCEPT !.held = FALSE])

\* spawn: create the task and track it
spawn(m, task) ==
    IF BagCardinality(m.tasks) >= MaxTasks
    THEN [m EXCEPT !.overflow = TRUE]
    ELSE [m EXCEPT !.tasks = @ (+) SetToBag({task})]

\* pop the entry of state_name and cancel the task it referred to
clear_timeout(m, state_name) ==
    IF state_name \notin m.timeouts THEN m
    ELSE [m EXCEPT !.timeouts = @ \ {state_name},
                   !.tasks = release(@, held_tasks(@, state_name))]

RECURSIVE clear_each(_, _)
clear_each(m, names) ==
    IF names = {} THEN m
    ELSE clear_each(clear_timeout(m, CHOOSE n \in names : TRUE),
                    names \ {CHOOSE n \in names : TRUE})

\* cancel every task of self._timeouts, then empty it
clear_all_timeouts(m) == clear_each(m, m.timeouts)

\* self._timeouts[state_name] = the spawned task
store_timeout(m, state_name) ==
    IF m.overflow THEN m ELSE [m EXCEPT !.timeouts = @ \cup {state_name}]

set_timeout(m, state_name, trigger_name) ==
    store_timeout(spawn(clear_timeout(m, state_name),
                        [state_name |-> state_name, trigger |-> trigger_name,
                         status |-> "sleeping", held |-> TRUE, mark |-> "none"]),
                  state_name)

\* ------------------------------------------------------------------------
\* Hooks and callbacks
\* ------------------------------------------------------------------------
\* the `before` callback of to_fault: calling the coroutine function on a
\* synchronous machine creates a coroutine object that nothing awaits, so
\* its body never runs
before_cancel_tasks(m) == Log(m, <<"before", "cancel_tasks">>)

\* an entry into ready that keeps the last state whatever the flag says
on_enter_ready_never_clears(m) == m

on_enter_ready(m) ==
    IF ~enable_recovery THEN [m EXCEPT !.last_state = None] ELSE m

is_leaf(s) == spec_children(s) = <<>>

DEFAULT_HISTORY_SIZE == 1000

\* history_size or self.DEFAULT_HISTORY_SIZE: None and 0 are both falsy
maxlen == IF history_size \in {<<>>, <<0>>} THEN DEFAULT_HISTORY_SIZE ELSE history_size[1]

\* deque(maxlen=maxlen).append
deque_append(h, entry) ==
    IF Len(h) >= maxlen THEN Append(Tail(h), entry) ELSE Append(h, entry)

\* self._history[-1]["duration_ms"] = ..., when there is a previous entry
backfill_duration(m) ==
    IF m.history # <<>> /\ m.current_start
    THEN [m.history EXCEPT ![Len(m.history)].duration_ms = TRUE]
    ELSE m.history

record_history_event(m, transition) ==
    [m EXCEPT !.history = deque_append(backfill_duration(m),
                                       [state |-> transition.dest, duration_ms |-> FALSE]),
              !.current_start = TRUE,
              !.last_state = IF is_leaf(transition.dest) /\ transition.dest \notin {READY, FAULT}
                             THEN transition.dest ELSE @]

attach_exit_timeout_clear(m, transition) == clear_timeout(m, transition.source)

\* ------------------------------------------------------------------------
\* Firing a trigger (HierarchicalGraphMachine, send_event=True, not queued)
\* ------------------------------------------------------------------------
RECURSIVE trigger(_, _)

RECURSIVE run_before(_, _)
run_before(m, callbacks) ==
    IF callbacks = <<>> \/ m.error # None THEN m
    ELSE run_before(IF Head(callbacks) = "cancel_tasks" THEN before_cancel_tasks(m)
                    ELSE hook(Log(m, <<"before", Head(callbacks)>>), "before", Head(callbacks)),
                    Tail(callbacks))

\* State.exit for each state being left, deepest first; an exception
\* raised by a callback ends the call
RECURSIVE exit_states(_, _)
exit_states(m, names) ==
    IF names = <<>> \/ m.error # None THEN m
    ELSE exit_states(hook(Log(m, <<"exit", Head(names)>>), "exit", Head(names)), Tail(names))

\* the on_enter_<s> method of the model, registered by the base constructor
model_on_enter(m, s) == IF s = READY THEN on_enter_ready(m) ELSE m

\* wrap_with_timeout: the handler calls set_timeout before its body
wrap_with_timeout(m, s) ==
    IF timeout_config(s) # None THEN set_timeout(m, s, timeout_config(s)) ELSE m

\* what the decorated enter handler of s does when it does not raise
fire_enter_trigger(m, s) ==
    IF enter_trigger(s) # None /\ ~m.overflow /\ m.error = None
    THEN trigger(m, enter_trigger(s)) ELSE m

\* the body of the decorated enter handler of s
handler_body(m, s) == fire_enter_trigger(hook(m, "enter", s), s)

\* the enter callbacks of state s, in the order they were registered:
\* on_enter_<s> methods of the model first, bound decorated handlers next
enter_callbacks(m, s) ==
    handler_body(wrap_with_timeout(model_on_enter(Log(m, <<"enter", s>>), s), s), s)

\* State.enter for each state being entered, outermost first; an exception
\* raised by a callback ends the call
RECURSIVE enter_states(_, _)
enter_states(m, names) ==
    IF names = <<>> \/ m.error # None THEN m
    ELSE enter_states(enter_callbacks(m, Head(names)), Tail(names))

after_callback(m, cb, transition) ==
    CASE cb = "_record_history_event" -> record_history_event(m, transition)
      [] cb = "_attach_exit_timeout_clear" -> attach_exit_timeout_clear(m, transition)
      [] OTHER -> m

RECURSIVE run_after(_, _, _)
run_after(m, callbacks, transition) ==
    IF callbacks = <<>> \/ m.error # None \/ m.overflow THEN m
    ELSE run_after(after_callback(Log(m, <<"after", Head(callbacks)>>), Head(callbacks), transition),
                   Tail(callbacks), transition)

\* how many leading names two paths share
common_prefix(a, b) ==
    CHOOSE k \in 0..Len(a) :
        /\ k <= Len(b)
        /\ \A i \in 1..k : a[i] = b[i]
        /\ (k < Len(a) /\ k < Len(b)) => a[k + 1] # b[k + 1]

\* NestedTransition._resolve_transition: the common root of the current
\* state and the destination; a destination that is the current state or
\* one of its ancestors is left and entered again
root_len(current, dest) ==
    IF common_prefix(state_path[dest], state_path[current]) = Len(state_path[dest])
    THEN Len(state_path[dest]) - 1
    ELSE common_prefix(state_path[dest], state_path[current])

\* the states left: from the current leaf up to the common root
exit_names(current, dest) ==
    Reverse(SubSeq(state_path[current], root_len(current, dest) + 1, Len(state_path[current])))

\* the states entered: down the destination path, then down the initial
\* children
enter_names(current, dest) ==
    SubSeq(state_path[dest], root_len(current, dest) + 1, Len(state_path[dest]))
    \o initial_chain[dest]

\* a state change that goes ahead after an exception
set_state_despite_error(m, leaf) == [Log(m, <<"state", leaf>>) EXCEPT !.state = leaf]

\* the model's state becomes the leaf entered last, unless an exception
\* has ended the call before
set_state(m, leaf) ==
    IF m.error # None THEN m ELSE [Log(m, <<"state", leaf>>) EXCEPT !.state = leaf]

\* NestedTransition._change_state: exit, state change, enter
change_state(m, current, dest) ==
    enter_states(set_state(exit_states(m, exit_names(current, dest)),
                           Last(enter_names(current, dest))),
                 enter_names(current, dest))

\* Transition._eval_conditions: the guard of the trigger, when it has one,
\* returns m.guard in this call
eval_conditions(m, transition) == transition.trigger \in guarded => m.guard

\* a transition that runs whatever its conditions say
execute_ignores_conditions(m, transition) ==
    run_after(change_state(run_before(m, transition.before), m.state, transition.dest),
              transition.after, transition)

\* Transition.execute: the conditions, and when they hold the before
\* callbacks, the state change and the after callbacks; when they do not,
\* nothing runs and the trigger call returns False
execute(m, transition) ==
    IF hook(m, "guard", transition.trigger).error # None
    THEN hook(m, "guard", transition.trigger)
    ELSE IF ~eval_conditions(m, transition) THEN [m EXCEPT !.result = FALSE]
    ELSE run_after(change_state(run_before(m, transition.before), m.state, transition.dest),
                   transition.after, transition)

\* the transitions of trigger `name` declared with source s, in list order
transitions_for(name, s) ==
    SelectSeq(transitions, LAMBDA t : t.trigger = name /\ t.source = s)

\* the current state and its ancestors, deepest first
resolve_order(s) == Reverse(state_path[s])

\* the states of resolve_order that declare a transition for the trigger
sources_for(name, s) ==
    SelectSeq(resolve_order(s), LAMBDA src : transitions_for(name, src) # <<>>)

\* the transition is looked up on the current state, then on each
\* ancestor; none at all is a MachineError
trigger_event(m, name) ==
    IF name \notin events THEN [m EXCEPT !.error = "AttributeError"]
    ELSE IF sources_for(name, m.state) = <<>> THEN [m EXCEPT !.error = "MachineError"]
    ELSE execute(m, Head(transitions_for(name, Head(sources_for(name, m.state)))))

\* model.trigger(name)
trigger(m, name) == trigger_event(Log(m, <<"trigger", name>>), name)

\* StateMachine.start
start(m) ==
    IF enable_recovery /\ m.last_state # None
    THEN trigger(m, "recover__" \o m.last_state)
    ELSE trigger(m, START)

\* ------------------------------------------------------------------------
\* The machine after construction, and its operations
\* ------------------------------------------------------------------------
\* inputs of direct set_timeout calls
TimeoutStates == {READY}
TimeoutTriggers == {START}

Init ==
    /\ state = READY
    /\ last_state = None
    /\ history = <<>>
    /\ current_start = FALSE
    /\ tasks = EmptyBag
    /\ timeouts = {}
    /\ enable_recovery \in BOOLEAN
    /\ history_size = <<HistorySize>>
    /\ auto_timeouts = {}
    /\ op = [name |-> "init", arg |-> None, fired |-> FALSE, error |-> None]
    /\ script = 0
    /\ cancel_pc = "idle"
    /\ topics = <<>>
    /\ handlers = <<>>
    /\ request = <<>>
    /\ registry = <<>>
    /\ frame = <<>>

\* The instance takes the values the call left, unless the call needed more
\* tasks than the model tracks.  op records the call: its name and argument,
\* whether it fired a trigger, and the exception it ended with.
Commit(m, name, arg, next_script) ==
    /\ ~m.overflow
    /\ state' = m.state
    /\ last_state' = m.last_state
    /\ history' = m.history
    /\ current_start' = m.current_start
    /\ tasks' = m.tasks
    /\ timeouts' = m.timeouts
    /\ op' = [name |-> name, arg |-> arg, fired |-> m.log # <<>> /\ m.result,
              error |-> m.error]
    /\ script' = IF m.error = None THEN next_script ELSE 0
    /\ UNCHANGED <<enable_recovery, history_size, auto_timeouts, cancel_pc, services>>

\* fsm.start()
Start == Commit(start(Self), "start", None, 1)

\* fsm.trigger(name)
Trigger(name) ==
    \E g \in guard_results(name) :
        Commit(trigger([Self EXCEPT !.guard = g], name), "trigger", name,
               IF script = 1 /\ name = TO_FAULT THEN 2
               ELSE IF script = 2 /\ name = RESET THEN 3
               ELSE 0)

\* fsm.set_timeout(state_name, seconds, lambda: trigger_name)
SetTimeout(state_name, trigger_name) ==
    Commit(set_timeout(Self, state_name, trigger_name), "set_timeout", state_name, 0)

\* the task of the running _timeout_task ends
finish_running(bag, running) ==
    IF running = {} THEN bag
    ELSE Replace(bag, CHOOSE r \in running : TRUE,
                 [(CHOOSE r \in running : TRUE) EXCEPT !.status = "finished"])

\* a timeout task that fires without looking at the current state
timeout_task_unguarded(m, t) == trigger(m, t.trigger)

\* the rest of _timeout_task once its sleep is over
timeout_task(m, t) ==
    IF m.state = t.state_name THEN trigger(m, t.trigger) ELSE m

\* the task runs to its end; cancelling it from inside its own body does
\* not stop the body
run_task(m, t) ==
    [timeout_task([m EXCEPT !.tasks = Replace(@, t, [t EXCEPT !.status = "running"])], t)
       EXCEPT !.tasks = finish_running(@, {u \in BagToSet(@) : u.status = "running"})]

\* the event loop resumes a timeout task whose sleep has ended
Wake(t) ==
    /\ t.status = "sleeping"
    /\ Commit(run_task(Self, t), "wake", t.state_name, 0)

\* a background task of the application: it sleeps, then fires its trigger
\* if the machine is still in the state it expects; self._timeouts does
\* not know it
delayed_trigger(expected_state, trigger_name) ==
    [state_name |-> expected_state, trigger |-> trigger_name, status |-> "sleeping",
     held |-> FALSE, mark |-> "none"]

\* fsm.spawn(_delayed_trigger(delay, trigger, expected_state))
Spawn(expected_state, trigger_name) ==
    Commit(spawn(Self, delayed_trigger(expected_state, trigger_name)), "spawn", expected_state, 0)

\* a step of the event loop that only changes the tracked tasks
LoopStep(bag) ==
    /\ tasks' = bag
    /\ script' = 0
    /\ UNCHANGED <<state, last_state, history, current_start, timeouts,
                   enable_recovery, history_size, auto_timeouts, op, services>>

\* the event loop throws CancelledError into a cancelled task, which ends
DeliverCancel(t) ==
    /\ t.status = "cancelling"
    /\ LoopStep(Replace(tasks, t, [t EXCEPT !.status = "finished"]))
    /\ UNCHANGED cancel_pc

\* list(self._tasks): every tracked task is in the list of the call, and
\* the tasks of an earlier call are of no concern to this one
RECURSIVE list_tasks(_, _)
list_tasks(bag, todo) ==
    IF todo = {} THEN EmptyBag
    ELSE list_tasks(bag, todo \ {CHOOSE t \in todo : TRUE})
         (+) [u \in {[(CHOOSE t \in todo : TRUE) EXCEPT !.mark = "listed"]}
                |-> CopiesIn(CHOOSE t \in todo : TRUE, bag)]

list_all(bag) == list_tasks(bag, BagToSet(bag))

\* the listed tasks for which `await task` has to wait; cancel() and await
\* leave a task that is done as it is
listed_open(bag) ==
    {t \in BagToSet(bag) : t.mark = "listed" /\ t.status # "finished"}

\* the loop of cancel_tasks from its next listed task on: task.cancel(),
\* then `await task` suspends the call until that task is done; with no
\* task left to wait for the call returns
cancel_loop(bag) ==
    IF listed_open(bag) = {}
    THEN tasks' = bag /\ cancel_pc' = "idle"
    ELSE \E t \in listed_open(bag) :
            /\ tasks' = Replace(bag, t, [cancel(t) EXCEPT !.mark = "awaited"])
            /\ cancel_pc' = "awaiting"

\* await fsm.cancel_tasks(), up to its first suspension
CancelTasks ==
    /\ cancel_pc # "awaiting"
    /\ timeouts' = {}
    /\ cancel_loop(list_all(clear_all_timeouts(Self).tasks))
    /\ op' = [name |-> "cancel_tasks", arg |-> None, fired |-> FALSE, error |-> None]
    /\ script' = 0
    /\ UNCHANGED <<state, last_state, history, current_start, enable_recovery, history_size, auto_timeouts, services>>

\* done callbacks that only a cancel_tasks call waiting for the task has
DoneCallback_when_awaited(t) ==
    /\ t.status = "finished"
    /\ t.mark = "awaited"
    /\ script' = 0
    /\ cancel_loop(tasks (-) SetToBag({t}))
    /\ UNCHANGED <<state, last_state, history, current_start, timeouts,
                   enable_recovery, history_size, auto_timeouts, op, services>>

\* the done callbacks of a task, in the order they were added: spawn's
\* self._tasks.discard(task), then the wake-up of the cancel_tasks call
\* that awaits the task, which goes on with its loop
DoneCallback(t) ==
    /\ t.status = "finished"
    /\ script' = 0
    /\ IF t.mark = "awaited"
       THEN cancel_loop(tasks (-) SetToBag({t}))
       ELSE tasks' = tasks (-) SetToBag({t}) /\ UNCHANGED cancel_pc
    /\ UNCHANGED <<state, last_state, history, current_start, timeouts,
                   enable_recovery, history_size, auto_timeouts, op, services>>

Next ==
    \/ Start
    \/ \E name \in events : Trigger(name)
    \/ \E s \in TimeoutStates, f \in TimeoutTriggers : SetTimeout(s, f)
    \/ \E t \in BagToSet(tasks) : Wake(t)
    \/ \E t \in BagToSet(tasks) : DeliverCancel(t)
    \/ \E t \in BagToSet(tasks) : DoneCallback(t)

Spec == Init /\ [][Next]_vars

\* the machine with one caller that also spawns background tasks and awaits
\* cancel_tasks(): while its cancel_tasks() call is suspended the caller
\* makes no other call, and only the event loop and the tasks run
CancelNext ==
    \/ cancel_pc = "idle" /\ Start
    \/ \E name \in events : cancel_pc = "idle" /\ Trigger(name)
    \/ \E s \in TimeoutStates, f \in TimeoutTriggers : cancel_pc = "idle" /\ SetTimeout(s, f)
    \/ \E s \in TimeoutStates, f \in TimeoutTriggers : cancel_pc = "idle" /\ Spawn(s, f)
    \/ CancelTasks
    \/ \E t \in BagToSet(tasks) : Wake(t)
    \/ \E t \in BagToSet(tasks) : DeliverCancel(t)
    \/ \E t \in BagToSet(tasks) : DoneCallback(t)

CancelSpec == Init /\ [][CancelNext]_vars

\* ------------------------------------------------------------------------
\* to_fault while delayed-trigger tasks sleep
\* ------------------------------------------------------------------------
\* the tracked tasks, with the mark "faulted" on every delayed-trigger task
\* that is sleeping (the mark only records that to_fault was fired meanwhile)
RECURSIVE note_fault(_, _)
note_fault(bag, todo) ==
    IF todo = {} THEN bag
    ELSE note_fault(Replace(bag, CHOOSE t \in todo : TRUE,
                            [(CHOOSE t \in todo : TRUE) EXCEPT !.mark = "faulted"]),
                    todo \ {CHOOSE t \in todo : TRUE})

\* the delayed-trigger tasks that are sleeping
sleeping_delayed(bag) ==
    {t \in BagToSet(bag) : ~t.held /\ t.status = "sleeping" /\ t.mark = "none"}

\* the machine after fsm.trigger("to_fault"), the sleeping tasks marked
to_fault(m) ==
    [trigger(m, TO_FAULT) EXCEPT !.tasks = note_fault(@, sleeping_delayed(@))]

\* fsm.trigger("to_fault")
ToFault == Commit(to_fault(Self), "trigger", TO_FAULT, 0)

\* the enter hook of a state spawns a delayed trigger that expects the state
EnterSpawn(expected_state, trigger_name) ==
    /\ state = expected_state
    /\ Spawn(expected_state, trigger_name)

FaultNext ==
    \/ Start
    \/ \E name \in events \ {TO_FAULT} : Trigger(name)
    \/ ToFault
    \/ \E s \in TimeoutStates, f \in TimeoutTriggers : EnterSpawn(s, f)
    \/ \E t \in BagToSet(tasks) : Wake(t)
    \/ \E t \in BagToSet(tasks) : DeliverCancel(t)
    \/ \E t \in BagToSet(tasks) : DoneCallback(t)

FaultSpec == Init /\ [][FaultNext]_vars

\* ------------------------------------------------------------------------
\* The history buffer under each history_size argument
\* ------------------------------------------------------------------------
\* the longest history the runs below build (the deque itself has room for
\* DEFAULT_HISTORY_SIZE entries when no size is given)
MaxHistory == 3

\* history_size: Optional[int]; a negative size makes deque() raise
HistorySizes == {<<>>} \cup {<<n>> : n \in 0..HistorySize}

HistoryInit ==
    /\ state = READY
    /\ last_state = None
    /\ history = <<>>
    /\ current_start = FALSE
    /\ tasks = EmptyBag
    /\ timeouts = {}
    /\ enable_recovery \in BOOLEAN
    /\ history_size \in HistorySizes
    /\ auto_timeouts = {}
    /\ op = [name |-> "init", arg |-> None, fired |-> FALSE, error |-> None]
    /\ script = 0
    /\ cancel_pc = "idle"
    /\ topics = <<>>
    /\ handlers = <<>>
    /\ request = <<>>
    /\ registry = <<>>
    /\ frame = <<>>

\* the calls that can add to the history, while the run has room for more
HistoryNext ==
    \/ Len(history) < MaxHistory /\ Start
    \/ \E name \in events : Len(history) < MaxHistory /\ Trigger(name)
    \/ \E t \in BagToSet(tasks) : Len(history) < MaxHistory /\ Wake(t)
    \/ \E t \in BagToSet(tasks) : DeliverCancel(t)
    \/ \E t \in BagToSet(tasks) : DoneCallback(t)

HistorySpec == HistoryInit /\ [][HistoryNext]_vars

\* ------------------------------------------------------------------------
\* Machines whose fault state has a timeout of its own
\* ------------------------------------------------------------------------
\* an @on_enter_state("fault") handler with @auto_timeout(seconds, "reset"),
\* or none
TimeoutInit ==
    /\ state = READY
    /\ last_state = None
    /\ history = <<>>
    /\ current_start = FALSE
    /\ tasks = EmptyBag
    /\ timeouts = {}
    /\ enable_recovery \in BOOLEAN
    /\ history_size = <<HistorySize>>
    /\ auto_timeouts \in {{}, {FAULT}}
    /\ op = [name |-> "init", arg |-> None, fired |-> FALSE, error |-> None]
    /\ script = 0
    /\ cancel_pc = "idle"
    /\ topics = <<>>
    /\ handlers = <<>>
    /\ request = <<>>
    /\ registry = <<>>
    /\ frame = <<>>

TimeoutNext ==
    \/ Start
    \/ \E name \in events : Trigger(name)
    \/ \E t \in BagToSet(tasks) : Wake(t)
    \/ \E t \in BagToSet(tasks) : DeliverCancel(t)
    \/ \E t \in BagToSet(tasks) : DoneCallback(t)

TimeoutSpec == TimeoutInit /\ [][TimeoutNext]_vars

\* ------------------------------------------------------------------------
\* Trigger calls in which a callback raises
\* ------------------------------------------------------------------------
\* the states whose hooks are tried: a leaf with a timeout, a leaf whose
\* enter hook fires a trigger, a compound state, and fault
HookStates == {"run_pick", "run_show", "run_deep", FAULT}

\* the callbacks that can raise: the guard of a guarded trigger, a before
\* callback of a transition, an exit or an enter hook of a state
Hooks ==
    [kind : {"guard"}, at : guarded]
    \cup [kind : {"before"}, at : {"prepare"}]
    \cup [kind : {"exit", "enter"}, at : HookStates]

\* the instance takes the values the call left; op also records the
\* callback that raised, when the call ended with its exception
HookCommit(m, name) ==
    /\ ~m.overflow
    /\ state' = m.state
    /\ last_state' = m.last_state
    /\ history' = m.history
    /\ current_start' = m.current_start
    /\ tasks' = m.tasks
    /\ timeouts' = m.timeouts
    /\ op' = [name |-> "trigger", arg |-> name, fired |-> m.log # <<>> /\ m.result,
              error |-> m.error,
              raised |-> IF m.error = "HookError" THEN m.raises ELSE NoHook]
    /\ script' = 0
    /\ UNCHANGED <<enable_recovery, history_size, auto_timeouts, cancel_pc, services>>

\* fsm.trigger(name), for a trigger that has a transition from the current
\* state, while the callback `raising` raises when it is run
TriggerWithHook(name, raising) ==
    /\ sources_for(name, state) # <<>>
    /\ \E g \in guard_results(name) :
        HookCommit(trigger([Self EXCEPT !.guard = g, !.raises = raising], name), name)

HookNext ==
    \/ Start
    \/ \E name \in events, raising \in Hooks \cup {NoHook} : TriggerWithHook(name, raising)
    \/ \E t \in BagToSet(tasks) : DeliverCancel(t)
    \/ \E t \in BagToSet(tasks) : DoneCallback(t)

HookSpec == Init /\ [][HookNext]_vars

\* ------------------------------------------------------------------------
\* The Trigger_<Name> RPCs of build_state_machine_bundle
\* ------------------------------------------------------------------------
CONNECT_CODE_MAP ==
    {"cancelled", "unknown", "invalid_argument", "deadline_exceeded", "not_found",
     "already_exists", "permission_denied", "resource_exhausted",
     "failed_precondition", "aborted", "out_of_range", "unimplemented", "internal",
     "unavailable", "data_loss", "unauthenticated"}

\* a ConnectError that keeps the code it is given
ConnectError_keeps_code(code, message) ==
    [kind |-> "raise", cls |-> "ConnectError", code |-> code,
     message |-> message, details |-> <<>>]

\* raise ConnectError(code, message)
ConnectError(code, message) ==
    [kind |-> "raise", cls |-> "ConnectError",
     code |-> IF code \in CONNECT_CODE_MAP THEN code ELSE "unknown",
     message |-> message, details |-> <<>>]

\* the exception classes tried
ExceptionClasses ==
    {"ConnectError", "TimeoutError", "KeyError", "ValueError", "ValidationError",
     "PermissionError", "RuntimeError"}

\* the classes an exception of each class is an instance of (pydantic's
\* ValidationError is a ValueError; asyncio.TimeoutError is written
\* TimeoutError)
bases ==
    [cls \in ExceptionClasses |->
        {cls, "Exception"} \cup
            (CASE cls = "KeyError" -> {"LookupError"}
               [] cls = "ValidationError" -> {"ValueError"}
               [] cls = "PermissionError" -> {"OSError"}
               [] OTHER -> {})]

\* raise cls(message); message is str(exc)
exception(cls, message) == [kind |-> "raise", cls |-> cls, message |-> message]

isinstance(exc, classes) == bases[exc.cls] \cap classes # {}

\* str(exc) or fallback
str_or(exc, fallback) == IF exc.message = "" THEN fallback ELSE exc.message

to_connect_error(exc) ==
    IF isinstance(exc, {"ConnectError"}) THEN exc
    ELSE IF isinstance(exc, {"TimeoutError"})
    THEN ConnectError("deadline_exceeded", str_or(exc, "Deadline exceeded"))
    ELSE IF isinstance(exc, {"KeyError", "ValueError"})
    THEN ConnectError("invalid_argument", str_or(exc, "Invalid argument"))
    ELSE IF isinstance(exc, {"PermissionError"})
    THEN ConnectError("permission_denied", str_or(exc, "Permission denied"))
    ELSE ConnectError("internal", str_or(exc, exc.cls))

\* the dict error_envelope builds from the ConnectError
envelope(ce) ==
    [error |-> [code |-> ce.code, message |-> ce.message, details |-> ce.details]]

error_envelope(exc) == envelope(to_connect_error(exc))

\* JSONResponse(content): the status code is the default one
JSONResponse(content) == [status_code |-> 200, body |-> content]

\* for each state, the triggers with a transition whose source is the state
\* or one of its ancestors
triggers_from ==
    [s \in get_nested_state_names |-> {name \in events : sources_for(name, s) # <<>>}]

\* sm.get_triggers(s)
get_triggers(s) == triggers_from[s]

\* the `triggers` argument of build_state_machine_bundle: the triggers that
\* get a Trigger_<Name> RPC
selected == {START, "picked", "stop"}

\* getattr(sm, trigger_name)(): the machine adds a method per trigger to the
\* model unless the model has an attribute of that name already, as it has
\* for StateMachine.start
method(m, trigger_name) ==
    IF trigger_name = START THEN start(m) ELSE trigger(m, trigger_name)

\* the end of trigger_call, once the method has run
trigger_response(m, trigger_name, current) ==
    IF m.error # None
    THEN [m EXCEPT !.rpc = ConnectError("internal",
                                        [trigger |-> trigger_name, exception |-> m.error])]
    ELSE [m EXCEPT !.rpc = [kind |-> "return", result |-> trigger_name,
                            previous_state |-> current, new_state |-> m.state]]

\* a handler that reports a trigger that is not allowed as an internal error
trigger_call_internal_error(m, trigger_name) ==
    IF trigger_name \notin get_triggers(m.state)
    THEN [m EXCEPT !.rpc = ConnectError("internal",
                                        [trigger |-> trigger_name, current |-> m.state,
                                         allowed |-> get_triggers(m.state)])]
    ELSE trigger_response(method(m, trigger_name), trigger_name, m.state)

\* make_trigger_handler(trigger_name).trigger_call; the message is the
\* record of the values its text is made of
trigger_call(m, trigger_name) ==
    IF trigger_name \notin get_triggers(m.state)
    THEN [m EXCEPT !.rpc = ConnectError("failed_precondition",
                                        [trigger |-> trigger_name, current |-> m.state,
                                         allowed |-> get_triggers(m.state)])]
    ELSE trigger_response(method(m, trigger_name), trigger_name, m.state)

\* the unary handler of add_unary: the dumped result, or the error envelope
\* of the exception the function raised
unary_handler(m) ==
    IF m.rpc.kind = "raise" THEN JSONResponse(error_envelope(m.rpc))
    ELSE JSONResponse([result |-> m.rpc.result, previous_state |-> m.rpc.previous_state,
                       new_state |-> m.rpc.new_state])

\* what a Trigger_<Name> call leaves: the machine as the call left it, and
\* in op the response and the value the guard returned
RpcCommit(m, trigger_name, g) ==
    /\ ~m.overflow
    /\ state' = m.state
    /\ last_state' = m.last_state
    /\ history' = m.history
    /\ current_start' = m.current_start
    /\ tasks' = m.tasks
    /\ timeouts' = m.timeouts
    /\ op' = [name |-> "rpc", arg |-> trigger_name, fired |-> m.log # <<>> /\ m.result,
              error |-> m.error, guard |-> g, response |-> unary_handler(m)]
    /\ script' = 0
    /\ UNCHANGED <<enable_recovery, history_size, auto_timeouts, cancel_pc, services>>

\* POST /<service>/Trigger_<Name>
RpcTrigger(trigger_name, g) ==
    RpcCommit(trigger_call([Self EXCEPT !.guard = g], trigger_name), trigger_name, g)

\* the machine with callers that also use its RPCs
RpcNext ==
    \/ Next
    \/ \E name \in selected : \E g \in guard_results(name) : RpcTrigger(name, g)

RpcSpec == Init /\ [][RpcNext]_vars

\* ------------------------------------------------------------------------
\* ConnectRouter.add_unary: the handler of any action
\* ------------------------------------------------------------------------
\* entry.input_type: none, a model with a required field, a model whose
\* fields all have defaults
InputTypes == {None, "required", "optional"}

\* the request bodies tried: not JSON, the empty object, an object with a
\* field of the wrong type, an object the model accepts
Bodies == {"malformed", "empty", "mistyped", "valid"}

\* the codes a function may give to the ConnectError it raises
Codes == CONNECT_CODE_MAP \cup {"ok", "bogus"}

\* what entry.func does once called: it returns, or raises an exception
Outcomes ==
    {[kind |-> "return", cls |-> None, code |-> None, message |-> ""]}
    \cup [kind : {"raise"}, cls : ExceptionClasses \ {"ConnectError", "ValidationError"},
          code : {None}, message : {"", "text"}]
    \cup [kind : {"raise"}, cls : {"ConnectError"}, code : Codes, message : {"text"}]

\* the exception an outcome stands for
raised(outcome) ==
    IF outcome.cls = "ConnectError" THEN ConnectError(outcome.code, outcome.message)
    ELSE exception(outcome.cls, outcome.message)

\* request_body = await request.json(), and {} when that raised
request_json(body) == IF body = "malformed" THEN "empty" ELSE body

\* input_type.model_validate(request_body) raises ValidationError
validation_fails(input_type, request_body) ==
    \/ request_body \in {"malformed", "mistyped"}
    \/ input_type = "required" /\ request_body = "empty"

\* the result of the function, dumped
dumped == [result |-> "ok"]

\* the try block of _handler once the body is read: validation when the
\* entry has an input type, the call, and the response; every exception
\* becomes the JSONResponse of its error envelope
respond(input_type, request_body, outcome) ==
    IF input_type # None /\ validation_fails(input_type, request_body)
    THEN [invoked |-> FALSE,
          response |-> JSONResponse(error_envelope(exception("ValidationError", "text")))]
    ELSE IF outcome.kind = "raise"
    THEN [invoked |-> TRUE, response |-> JSONResponse(error_envelope(raised(outcome)))]
    ELSE [invoked |-> TRUE, response |-> JSONResponse(dumped)]

\* POST /<service>/<entry.name>: request records the call, whether the
\* function was called and with what outcome, and the response
Unary(input_type, body, outcome) ==
    /\ request' = [input_type |-> input_type, body |-> body,
                   outcome |-> IF respond(input_type, request_json(body), outcome).invoked
                               THEN outcome ELSE None,
                   invoked |-> respond(input_type, request_json(body), outcome).invoked,
                   response |-> respond(input_type, request_json(body), outcome).response]
    /\ UNCHANGED <<state, last_state, history, current_start, tasks, timeouts,
                   enable_recovery, history_size, auto_timeouts, op, script, cancel_pc, topics, handlers, registry,
                   frame>>

UnaryNext ==
    \E input_type \in InputTypes, body \in Bodies, outcome \in Outcomes :
        Unary(input_type, body, outcome)

UnarySpec == Init /\ [][UnaryNext]_vars

\* ------------------------------------------------------------------------
\* StreamManager: one topic, its distributor task and its subscribers
\* ------------------------------------------------------------------------
\* Items are numbered in the order they are published.  Subscribers are
\* numbered in the order they subscribe.
StreamName == "state_change"

\* topic["last_value"] before the first item
NoItem == 0

\* the queue_maxsize values of the stream entries tried; asyncio.Queue takes
\* a maxsize of zero or less as no limit
QueueSizes == {0, 1, 2}

Policies == {"latest", "fifo"}

\* the orders in which `for sub in list(subscribers)` may go through a set
Orders ==
    {o \in [1..MaxSubscribers -> 1..MaxSubscribers] :
        \A i, j \in 1..MaxSubscribers : o[i] = o[j] => i = j}

\* the task of _distributor when nothing is in its hands: it waits in
\* `await publish_queue.get()`
idle_task == [pc |-> "get", item |-> NoItem, todo |-> <<>>, dead |-> <<>>]

\* ensure_topic(entry).  Beside the keys of the dict, the record keeps for
\* every subscriber its queue, what its stream handler has read, and what
\* had happened when it subscribed; published and taken count the items
\* published and the items the distributor has taken.
ensure_topic(entry) ==
    [entry |-> entry, publish_queue |-> <<>>, subscribers |-> {},
     last_value |-> NoItem, task |-> idle_task,
     queue |-> <<>>, reads |-> <<>>, joined |-> <<>>, reading |-> {},
     published |-> 0, taken |-> 0]

\* asyncio.Queue.full(): never, when maxsize is zero or less
queue_full(q, maxsize) == maxsize > 0 /\ Len(q) >= maxsize

full(t, sub) == queue_full(t.queue[sub], t.entry.queue_maxsize)

\* publish_queue = asyncio.Queue(): no maxsize
publish_queue_maxsize == 0

\* a publish that needs room in the queues of the subscribers
publish_full_with_subscribers(t) ==
    \E sub \in t.subscribers : full(t, sub)

\* put_nowait on the publish queue finds it full: never, as it has no limit
publish_full(t) == queue_full(t.publish_queue, publish_queue_maxsize)

\* a publish that also makes the item the last value of the topic
publish_sets_last_value(t, item) ==
    [t EXCEPT !.publish_queue = Append(@, item), !.published = item, !.last_value = item]

\* StreamManager.publish: put_nowait on the publish queue
publish(t, item) ==
    [t EXCEPT !.publish_queue = Append(@, item), !.published = item]

\* a subscribe that seeds the queue whether or not the stream replays
seed_always(t) ==
    IF t.last_value # NoItem THEN <<t.last_value>> ELSE <<>>

\* the queue of a new subscriber: put_nowait(last_value) on the fresh queue
\* when the stream replays and there is a last value
seed(t) ==
    IF t.entry.replay /\ t.last_value # NoItem THEN <<t.last_value>> ELSE <<>>

\* StreamManager.subscribe, called by the stream handler, which then reads
subscribe(t) ==
    [t EXCEPT !.subscribers = @ \cup {Len(t.queue) + 1},
              !.queue = Append(@, seed(t)),
              !.reads = Append(@, <<>>),
              !.joined = Append(@, [published |-> t.published, taken |-> t.taken]),
              !.reading = @ \cup {Len(t.queue) + 1}]

\* StreamManager.unsubscribe, from the `finally` of the stream handler
unsubscribe(t, sub) ==
    [t EXCEPT !.subscribers = @ \ {sub}, !.reading = @ \ {sub}]

\* _stream_iter: item = await subscriber.queue.get()
read(t, sub) ==
    [t EXCEPT !.queue[sub] = Tail(@), !.reads[sub] = Append(@, Head(t.queue[sub]))]

\* a distributor that takes an item and leaves last_value as it was
take_item_keeps_last_value(t, order) ==
    [t EXCEPT !.publish_queue = Tail(@),
              !.taken = @ + 1,
              !.task = [pc |-> "put", item |-> Head(t.publish_queue),
                        todo |-> SelectSeq(order, LAMBDA sub : sub \in t.subscribers),
                        dead |-> <<>>]]

\* item = await publish_queue.get(); topic["last_value"] = item; and the
\* list(subscribers) the for loop goes through
take_item(t, order) ==
    [t EXCEPT !.publish_queue = Tail(@),
              !.last_value = Head(t.publish_queue),
              !.taken = @ + 1,
              !.task = [pc |-> "put", item |-> Head(t.publish_queue),
                        todo |-> SelectSeq(order, LAMBDA sub : sub \in t.subscribers),
                        dead |-> <<>>]]

\* a get_nowait that leaves the oldest item where it is
get_nowait_keeps_oldest(q) == q

\* _ = sub.queue.get_nowait(), whose QueueEmpty is swallowed
get_nowait(q) == IF q = <<>> THEN q ELSE Tail(q)

\* a full queue that keeps what it holds and loses the new item
put_latest_drops_new(q, item, maxsize) ==
    IF ~queue_full(q, maxsize) THEN Append(q, item) ELSE q

\* a full queue that takes the new item in front of what it holds
put_latest_in_front(q, item, maxsize) ==
    IF ~queue_full(q, maxsize) THEN Append(q, item) ELSE <<item>> \o Tail(q)

\* policy "latest": put_nowait; on QueueFull, get_nowait drops the oldest
\* item and put_nowait is tried again
put_latest(q, item, maxsize) ==
    IF ~queue_full(q, maxsize) THEN Append(q, item)
    ELSE IF ~queue_full(get_nowait(q), maxsize) THEN Append(get_nowait(q), item)
    ELSE get_nowait(q)

\* dead.append(sub): the second put_nowait found the queue full again
marked_dead(q, maxsize) ==
    queue_full(q, maxsize) /\ queue_full(get_nowait(q), maxsize)

\* a fifo distributor that does not wait for room
blocked_never(t) == FALSE

\* policy "fifo": `await sub.queue.put(item)` suspends while the queue of
\* the subscriber at hand is full
blocked(t) ==
    /\ t.task.pc = "put" /\ t.task.todo # <<>>
    /\ t.entry.policy = "fifo"
    /\ full(t, Head(t.task.todo))

\* one turn of the for loop: the item goes to the subscriber at hand
deliver(t) ==
    [t EXCEPT !.queue[Head(t.task.todo)] =
                 IF t.entry.policy = "fifo" /\ ~full(t, Head(t.task.todo))
                 THEN Append(@, t.task.item)
                 ELSE put_latest(@, t.task.item, t.entry.queue_maxsize),
              !.task.dead =
                 IF t.entry.policy # "fifo"
                    /\ marked_dead(t.queue[Head(t.task.todo)], t.entry.queue_maxsize)
                 THEN Append(@, Head(t.task.todo)) ELSE @,
              !.task.todo = Tail(@)]

\* after the for loop: the dead subscribers are discarded and the
\* distributor goes back to the publish queue
end_of_loop(t) ==
    [t EXCEPT !.subscribers = @ \ {t.task.dead[i] : i \in 1..Len(t.task.dead)},
              !.task = idle_task]

\* _distributor from where it stands up to its next suspension: it takes
\* items while the publish queue has some and gives each to the subscribers
\* in turn; it suspends on an empty publish queue, and under fifo on a full
\* subscriber queue
RECURSIVE distributor(_, _)
distributor(t, order) ==
    IF t.task.pc = "get"
    THEN IF t.publish_queue = <<>> THEN t
         ELSE distributor(take_item(t, order), order)
    ELSE IF t.task.todo = <<>> THEN distributor(end_of_loop(t), order)
    ELSE IF blocked(t) THEN t
    ELSE distributor(deliver(t), order)

\* the distributor has something to go on with
runnable(t) ==
    \/ t.task.pc = "get" /\ t.publish_queue # <<>>
    \/ t.task.pc = "put" /\ ~blocked(t)

\* the topic of the stream
Topic == topics[StreamName]

\* a step of the stream manager leaves the state machine alone
StreamStep(t) ==
    /\ topics' = [topics EXCEPT ![StreamName] = t]
    /\ UNCHANGED <<state, last_state, history, current_start, tasks, timeouts,
                   enable_recovery, history_size, auto_timeouts, op, script, cancel_pc, handlers, request, registry,
                   frame>>

\* router.publish(name, item)
\* (put_nowait raises QueueFull on a full queue and never waits)
Publish ==
    /\ Topic.published < MaxItems
    /\ ~publish_full(Topic)
    /\ StreamStep(publish(Topic, Topic.published + 1))

\* a client opens the stream
Subscribe ==
    /\ Len(Topic.queue) < MaxSubscribers
    /\ StreamStep(subscribe(Topic))

\* the stream handler of a subscriber gets the next item of its queue
Read(sub) ==
    /\ sub \in Topic.reading
    /\ Topic.queue[sub] # <<>>
    /\ StreamStep(read(Topic, sub))

\* a client closes the stream
Unsubscribe(sub) ==
    /\ sub \in Topic.reading
    /\ StreamStep(unsubscribe(Topic, sub))

\* the event loop resumes the distributor task
Distribute(order) ==
    /\ runnable(Topic)
    /\ StreamStep(distributor(Topic, order))

\* a router with one stream, whose entry is any of those tried; the state
\* machine is the one a client has built and not started
StreamInit ==
    /\ state = READY
    /\ last_state = None
    /\ history = <<>>
    /\ current_start = FALSE
    /\ tasks = EmptyBag
    /\ timeouts = {}
    /\ enable_recovery = TRUE
    /\ history_size = <<HistorySize>>
    /\ auto_timeouts = {}
    /\ op = [name |-> "init", arg |-> None, fired |-> FALSE, error |-> None]
    /\ script = 0
    /\ cancel_pc = "idle"
    /\ handlers = <<>>
    /\ request = <<>>
    /\ registry = <<>>
    /\ frame = <<>>
    /\ \E replay \in BOOLEAN, queue_maxsize \in QueueSizes, policy \in Policies :
          topics = [n \in {StreamName} |->
                      ensure_topic([replay |-> replay, queue_maxsize |-> queue_maxsize,
                                    policy |-> policy])]

StreamNext ==
    \/ Publish
    \/ Subscribe
    \/ \E sub \in 1..MaxSubscribers : Read(sub)
    \/ \E sub \in 1..MaxSubscribers : Unsubscribe(sub)
    \/ \E order \in Orders : Distribute(order)

StreamSpec == StreamInit /\ [][StreamNext]_vars

StreamTypeOK ==
    /\ Topic.published \in 0..MaxItems
    /\ Topic.last_value \in 0..MaxItems
    /\ Len(Topic.queue) <= MaxSubscribers
    /\ Topic.subscribers \subseteq 1..Len(Topic.queue)
    /\ \A sub \in 1..Len(Topic.queue) :
          \/ Topic.entry.queue_maxsize <= 0
          \/ Len(Topic.queue[sub]) <= Topic.entry.queue_maxsize
    /\ Topic.task.pc \in {"get", "put"}

\* ------------------------------------------------------------------------
\* ConnectRouter.add_stream: the stream handler of each subscriber
\* ------------------------------------------------------------------------
\* the flag byte of a data frame and of a trailer frame
DataFlag == 0
TrailerFlag == 128

\* the items _serialize_stream_item / _frame raise on (json.dumps refuses
\* their payload)
Unserializable == {2}

\* _stream_iter(subscriber) as _handler hands it to StreamingResponse: an
\* async generator that has not run yet
new_handler == [pc |-> "created", frames |-> <<>>]

\* the `finally` of _stream_iter: unsubscribe, and the generator is over
exit_handler(t, hs, sub) ==
    [t |-> unsubscribe(t, sub), hs |-> [hs EXCEPT ![sub].pc = "exited"]]

\* a loop body that ends the stream on an error without a trailer frame
emit_without_trailer(t, hs, sub) ==
    IF Head(t.queue[sub]) \in Unserializable
    THEN exit_handler(read(t, sub), hs, sub)
    ELSE [t |-> read(t, sub),
          hs |-> [hs EXCEPT ![sub].pc = "data", ![sub].frames = Append(@, DataFlag)]]

\* the loop body with an item in the queue: the item is taken and
\* serialized; the generator yields its data frame, or, when that raised,
\* the trailer frame of the `except Exception` clause
emit(t, hs, sub) ==
    IF Head(t.queue[sub]) \in Unserializable
    THEN [t |-> read(t, sub),
          hs |-> [hs EXCEPT ![sub].pc = "trailer", ![sub].frames = Append(@, TrailerFlag)]]
    ELSE [t |-> read(t, sub),
          hs |-> [hs EXCEPT ![sub].pc = "data", ![sub].frames = Append(@, DataFlag)]]

\* the top of `while True`: queue.get() suspends on an empty queue and
\* returns at once otherwise
loop(t, hs, sub) ==
    IF t.queue[sub] = <<>>
    THEN [t |-> t, hs |-> [hs EXCEPT ![sub].pc = "get"]]
    ELSE emit(t, hs, sub)

\* the response asks the generator for its next frame: a generator that has
\* not run enters the try block; one that yielded a data frame goes on to
\* `await asyncio.sleep(0)`; one that yielded the trailer runs its finally
next_frame(t, hs, sub) ==
    IF hs[sub].pc = "created" THEN loop(t, hs, sub)
    ELSE IF hs[sub].pc = "data" THEN [t |-> t, hs |-> [hs EXCEPT ![sub].pc = "sleep"]]
    ELSE exit_handler(t, hs, sub)

\* the client goes away and the response is cancelled.  A generator waiting
\* in an await gets CancelledError, re-raises it and runs its finally; one
\* suspended at a yield is closed (GeneratorExit) and runs its finally; one
\* that has not run has no try block to leave: it is dropped as it is
disconnect(t, hs, sub) ==
    IF hs[sub].pc = "created"
    THEN [t |-> t, hs |-> [hs EXCEPT ![sub].pc = "dropped"]]
    ELSE exit_handler(t, hs, sub)

\* a step of a stream handler leaves the state machine alone
HandlerStep(r) ==
    /\ topics' = [topics EXCEPT ![StreamName] = r.t]
    /\ handlers' = r.hs
    /\ UNCHANGED <<state, last_state, history, current_start, tasks, timeouts,
                   enable_recovery, history_size, auto_timeouts, op, script, cancel_pc, request, registry,
                   frame>>

\* _handler: a client opens the stream
Open ==
    /\ Len(Topic.queue) < MaxSubscribers
    /\ HandlerStep([t |-> subscribe(Topic), hs |-> Append(handlers, new_handler)])

\* StreamingResponse iterates the body
NextFrame(sub) ==
    /\ sub \in 1..Len(handlers)
    /\ handlers[sub].pc \in {"created", "data", "trailer"}
    /\ HandlerStep(next_frame(Topic, handlers, sub))

\* an item arrives in the queue of a handler waiting in queue.get()
QueueReady(sub) ==
    /\ sub \in 1..Len(handlers)
    /\ handlers[sub].pc = "get"
    /\ Topic.queue[sub] # <<>>
    /\ HandlerStep(emit(Topic, handlers, sub))

\* asyncio.sleep(0) is over
SleepDone(sub) ==
    /\ sub \in 1..Len(handlers)
    /\ handlers[sub].pc = "sleep"
    /\ HandlerStep(loop(Topic, handlers, sub))

\* the client disconnects
Disconnect(sub) ==
    /\ sub \in 1..Len(handlers)
    /\ handlers[sub].pc \notin {"exited", "dropped"}
    /\ HandlerStep(disconnect(Topic, handlers, sub))

HandlerNext ==
    \/ Publish
    \/ Open
    \/ \E sub \in 1..MaxSubscribers : NextFrame(sub)
    \/ \E sub \in 1..MaxSubscribers : QueueReady(sub)
    \/ \E sub \in 1..MaxSubscribers : SleepDone(sub)
    \/ \E sub \in 1..MaxSubscribers : Disconnect(sub)
    \/ \E order \in Orders : Distribute(order)

\* StreamEntry.queue_maxsize when the decorator is given none
default_queue_maxsize == 1

\* a router with one stream of the default queue size, of either policy,
\* with or without replay
HandlerInit == StreamInit /\ topics[StreamName].entry.queue_maxsize = default_queue_maxsize

HandlerSpec == HandlerInit /\ [][HandlerNext]_vars

HandlerTypeOK ==
    /\ Len(handlers) = Len(Topic.queue)
    /\ \A sub \in 1..Len(handlers) :
          /\ handlers[sub].pc \in {"created", "get", "data", "sleep", "trailer",
                                   "exited", "dropped"}
          /\ \A i \in 1..Len(handlers[sub].frames) :
                handlers[sub].frames[i] \in {DataFlag, TrailerFlag}

\* ------------------------------------------------------------------------
\* RpcRegistry: bundles and alias normalization
\* ------------------------------------------------------------------------
\* the RpcRegistry instances of the process (one per VentionApp)
Registries == {"app", "other"}

\* the pydantic models of the process, each with its field names, a name
\* being the sequence of the parts that "_" separates
model_fields ==
    [model \in {"Job", "Part", "Status"} |->
        CASE model = "Job" -> {<<"job", "id">>, <<"part">>}
          [] model = "Part" -> {<<"part", "serial", "number">>}
          [] OTHER -> {<<"is", "ready">>}]

Models == DOMAIN model_fields

\* the models among the annotations of the fields of a model
nested_models ==
    [model \in Models |-> IF model = "Job" THEN {"Part"} ELSE {}]

\* the bundles added to registries: the input, output and payload types of
\* the actions and streams of each
Bundles == {{"Job"}, {"Part", "Status"}, {"Status"}}

\* camelize(name): the first part, then the other parts capitalized
camelize(name) == [first |-> Head(name), capitalized |-> Tail(name)]

\* apply_aliases(model_cls): the model is rebuilt, every field gets the
\* camelCase alias of its name, and the run is counted
apply_aliases(reg, model) ==
    [reg EXCEPT !.alias[model] = [name \in model_fields[model] |-> camelize(name)],
                !.applied[model] = @ + 1]

\* normalize_model over the models in todo: a model not seen yet gets its
\* aliases, and then its nested models theirs
RECURSIVE normalize_model(_, _, _)
normalize_model(reg, todo, seen) ==
    IF todo \subseteq seen THEN reg
    ELSE LET model == CHOOSE m \in todo \ seen : TRUE
         IN  normalize_model(apply_aliases(reg, model),
                             (todo \ {model}) \cup nested_models[model],
                             seen \cup {model})

\* RpcRegistry.normalize_models_and_apply_aliases
normalize_models_and_apply_aliases(reg, r) ==
    IF reg.normalized[r] THEN reg
    ELSE [normalize_model(reg, reg.bundles[r], {}) EXCEPT !.normalized[r] = TRUE]

\* a step of a registry leaves the rest alone
RegistryStep(reg) ==
    /\ registry' = reg
    /\ UNCHANGED <<state, last_state, history, current_start, tasks, timeouts,
                   enable_recovery, history_size, auto_timeouts, op, script, cancel_pc, topics, handlers, request,
                   frame>>

\* registry.add_bundle(bundle)
AddBundle(r, bundle) ==
    /\ bundle \in Bundles
    /\ RegistryStep([registry EXCEPT !.bundles[r] = @ \cup bundle])

\* registry.normalize_models_and_apply_aliases()
Normalize(r) ==
    /\ r \in Registries
    /\ RegistryStep(normalize_models_and_apply_aliases(registry, r))

\* registry.get_unified_bundle(): normalization, then the merged bundle
GetUnifiedBundle(r) ==
    /\ registry.bundles[r] # {}
    /\ RegistryStep(normalize_models_and_apply_aliases(registry, r))

\* the registries as constructed, no model aliased yet
RegistryInit ==
    /\ state = READY
    /\ last_state = None
    /\ history = <<>>
    /\ current_start = FALSE
    /\ tasks = EmptyBag
    /\ timeouts = {}
    /\ enable_recovery = TRUE
    /\ history_size = <<HistorySize>>
    /\ auto_timeouts = {}
    /\ op = [name |-> "init", arg |-> None, fired |-> FALSE, error |-> None]
    /\ script = 0
    /\ cancel_pc = "idle"
    /\ topics = <<>>
    /\ handlers = <<>>
    /\ request = <<>>
    /\ frame = <<>>
    /\ registry = [bundles |-> [r \in Registries |-> {}],
                   normalized |-> [r \in Registries |-> FALSE],
                   applied |-> [model \in Models |-> 0],
                   alias |-> [model \in Models |-> [name \in model_fields[model] |-> None]]]

RegistryNext ==
    \/ \E r \in Registries, bundle \in Bundles : AddBundle(r, bundle)
    \/ \E r \in Registries : Normalize(r)
    \/ \E r \in Registries : GetUnifiedBundle(r)

RegistrySpec == RegistryInit /\ [][RegistryNext]_vars

\* ------------------------------------------------------------------------
\* Serialization of stream items
\* ------------------------------------------------------------------------
\* the largest number and the longest container among the items published
MaxNumber == 3
MaxElems == 2

\* Python values: numbers and strings, instances of the pydantic models,
\* and lists, tuples and dicts of scalars
PyScalars == {[kind |-> "int", number |-> n] : n \in 1..MaxNumber} \cup {[kind |-> "str", text |-> "x"]}

\* a key of a dict: a field name as declared, or any other string
key(name) == [parts |-> name]

PyItems ==
    PyScalars
    \cup {[kind |-> "model", cls |-> cls] : cls \in Models}
    \cup {[kind |-> kind, elems |-> elems] :
            kind \in {"list", "tuple"},
            elems \in UNION {[1..n -> PyScalars] : n \in 0..MaxElems}}
    \cup {[kind |-> "dict", items |-> items] :
            items \in UNION {[keys -> PyScalars] : keys \in SUBSET {key(<<"a">>), key(<<"b">>)}}}

\* obj.model_dump(by_alias=...): a dict keyed by the aliases of the fields,
\* or by their names; the values of the fields play no part here
model_dump(obj, by_alias) ==
    [kind |-> "dict",
     items |-> [k \in {IF by_alias THEN camelize(name) ELSE key(name) :
                          name \in model_fields[obj.cls]} |-> [kind |-> "int", number |-> 1]]]

\* _to_serializable, which is all _serialize_stream_item does: models are
\* dumped by alias, the elements of lists, tuples and dicts are converted
\* in turn, and every other object is returned as it is
RECURSIVE to_serializable(_)
to_serializable(obj) ==
    CASE obj.kind = "model" -> model_dump(obj, TRUE)
      [] obj.kind \in {"list", "tuple"} ->
            [kind |-> "list", elems |-> [i \in DOMAIN obj.elems |-> to_serializable(obj.elems[i])]]
      [] obj.kind = "dict" ->
            [kind |-> "dict", items |-> [k \in DOMAIN obj.items |-> to_serializable(obj.items[k])]]
      [] OTHER -> obj

\* {"value": msg}
wrapped(msg) == [kind |-> "dict", items |-> [k \in {key(<<"value">>)} |-> msg]]

\* the frame of event_generator: a BaseModel is dumped with model_dump(),
\* and what is then neither a dict nor a list is wrapped
event_generator(msg) ==
    IF msg.kind = "model" THEN model_dump(msg, FALSE)
    ELSE IF msg.kind \notin {"dict", "list"} THEN wrapped(msg)
    ELSE msg

\* json.dumps: numbers and strings, arrays for lists and tuples, objects for
\* dicts; TypeError for anything else
RECURSIVE json_dumps(_)
json_dumps(obj) ==
    CASE obj.kind \in {"int", "str"} -> obj
      [] obj.kind \in {"list", "tuple"} ->
            [json |-> "array", elems |-> [i \in DOMAIN obj.elems |-> json_dumps(obj.elems[i])]]
      [] obj.kind = "dict" ->
            [json |-> "object", members |-> [k \in DOMAIN obj.items |-> json_dumps(obj.items[k])]]
      [] OTHER -> [json |-> "TypeError"]

\* the two stream endpoints of the repository
Endpoints == {"_stream_iter", "event_generator"}

\* an item reaches the generator of an endpoint, which builds the payload
\* of its data frame
Serialize(endpoint, item) ==
    /\ frame' = [endpoint |-> endpoint, item |-> item,
                 payload |-> IF endpoint = "_stream_iter" THEN to_serializable(item)
                             ELSE event_generator(item),
                 body |-> IF endpoint = "_stream_iter" THEN json_dumps(to_serializable(item))
                          ELSE json_dumps(event_generator(item))]
    /\ UNCHANGED <<state, last_state, history, current_start, tasks, timeouts,
                   enable_recovery, history_size, auto_timeouts, op, script, cancel_pc, topics, handlers,
                   request, registry>>

SerializeNext == \E endpoint \in Endpoints, item \in PyItems : Serialize(endpoint, item)

SerializeSpec == Init /\ [][SerializeNext]_vars

\* ------------------------------------------------------------------------
\* Well-formedness of the model's state
\* ------------------------------------------------------------------------
TypeOK ==
    /\ state \in get_nested_state_names
    /\ last_state \in get_nested_state_names \cup {None}
    /\ Len(history) <= HistorySize
    /\ \A t \in BagToSet(tasks) : t.status \in TaskStatus \ {"running"}
    /\ timeouts \subseteq get_nested_state_names
    /\ \A s \in get_nested_state_names :
          /\ Cardinality(held_tasks(tasks, s)) <= 1
          /\ \A t \in held_tasks(tasks, s) :
                s \in timeouts /\ CopiesIn(t, tasks) = 1 /\ t.status # "cancelling"
    /\ BagCardinality(tasks) <= MaxTasks
    /\ script \in 0..3
    /\ cancel_pc \in {"idle", "awaiting"}

\* ------------------------------------------------------------------------
\* Properties
\* ------------------------------------------------------------------------
\* the latest call fired a trigger whose transition ran to its end
Completed == op.fired /\ op.error = None

\* among the tracked tasks, state_name has a timeout task that can still fire
Pending(tracked, state_name) ==
    \E t \in BagToSet(tracked) : t.state_name = state_name /\ t.held /\ t.status = "sleeping"

\* C1: right after to_fault has been fired and has changed the state to
\* fault, every timeout has been cleared and no tracked task can still run.
C1_ToFaultCancelsEveryTask ==
    (op.name = "trigger" /\ op.arg = TO_FAULT /\ Completed) =>
        /\ timeouts = {}
        /\ \A t \in BagToSet(tasks) : t.status # "sleeping"

\* C2: current_state always names a leaf of the graph, and after a
\* transition whose destination is a compound state it is the leaf reached
\* by following the initial children of that destination.
C2_CurrentStateIsLeaf ==
    /\ state \in Leaves
    /\ (Completed /\ history # <<>> /\ Last(history).state \notin Leaves) =>
           state = Last(initial_chain[Last(history).state])

C2_Witness ==
    /\ op.name = "start" /\ Completed
    /\ Last(history).state = "run"
    /\ state = "run_pick"

\* C3: when the sleep of a timeout task set for state S ends, the task fires
\* its trigger exactly when current_state = S; otherwise it fires nothing and
\* current_state, history and last_recoverable_state stay as they were.
C3_TimeoutFiresOnlyInItsState ==
    [][\A t \in BagToSet(tasks) : Wake(t) =>
          /\ op'.fired <=> (state = t.state_name)
          /\ (state # t.state_name) => UNCHANGED <<state, history, last_state>>]_vars

C3_Witness ==
    /\ op.name = "wake" /\ op.arg = "run_pick" /\ op.fired
    /\ state = FAULT

\* C4: once a transition has taken the machine out of leaf S, no timeout is
\* pending for S.
C4_LeavingClearsTimeout ==
    [][(state' # state) => (state \notin timeouts' /\ ~Pending(tasks', state))]_vars

\* C5: once a transition has fired, the last history entry names the
\* current state.
C5_HistoryEndsAtCurrentState ==
    history # <<>> => Last(history).state = state

\* C6: after a transition that ends in a leaf other than ready and fault,
\* last_recoverable_state is that leaf; it is never ready or fault.
C6_LastStateIsCurrentLeaf ==
    /\ last_state \notin {READY, FAULT}
    /\ (Completed /\ state \notin {READY, FAULT}) => last_state = state

\* C7: every leaf other than ready and fault has a recover__<leaf>
\* transition from ready to that leaf.
C7_RecoverTransitionPerLeaf ==
    \A leaf \in Leaves \ {READY, FAULT} :
        /\ \E i \in 1..Len(transitions) :
              /\ transitions[i].trigger = "recover__" \o leaf
              /\ transitions[i].source = READY
              /\ transitions[i].dest = leaf
        /\ trigger([Self EXCEPT !.state = READY], "recover__" \o leaf).error = None

\* C8: start() in ready with recovery enabled and last_recoverable_state = L
\* ends in L with the enter hooks of L run; otherwise it fires start and ends
\* in the leaf reached from the destination of the start transition.
C8_StartRecoversLastState ==
    [][(Start /\ state = READY) =>
          IF enable_recovery /\ last_state # None
          THEN /\ state' = last_state
               /\ <<"enter", last_state>> \in Range(start(Self).log)
          ELSE /\ <<"trigger", START>> \in Range(start(Self).log)
               /\ state' = Last(enter_names(READY, "run"))]_vars

\* C9: to_fault is accepted from every state of the graph and ends in fault.
C9_ToFaultFromAnyState ==
    /\ \A s \in get_nested_state_names :
          LET m == trigger([Self EXCEPT !.state = s], TO_FAULT)
          IN m.error = None /\ m.state = FAULT
    /\ (op.name = "trigger" /\ op.arg = TO_FAULT) => (op.error = None /\ state = FAULT)

C9_Witness ==
    /\ op.name = "trigger" /\ op.arg = TO_FAULT /\ Completed
    /\ state = FAULT
    /\ Len(history) >= 2 /\ history[Len(history) - 1].state = FAULT

\* C10: start(); trigger(to_fault); trigger(reset) ends in ready; without
\* recovery last_recoverable_state is then unset, with recovery the entry
\* into ready leaves it as it was.
C10_StartFaultResetEndsReady ==
    [][(script' = 3) =>
          /\ state' = READY
          /\ IF enable_recovery THEN last_state' = last_state ELSE last_state' = None]_vars

C10_Witness ==
    /\ script = 3
    /\ enable_recovery
    /\ last_state = "run_pick"
    /\ state = READY

\* the step in which an `await cancel_tasks()` returns
CancelTasksReturns ==
    \/ CancelTasks /\ cancel_pc' = "idle"
    \/ cancel_pc = "awaiting" /\ cancel_pc' = "idle"

\* C11: when await cancel_tasks() returns, state_timeouts is empty and every
\* tracked task has finished, so that no tracked task is runnable and a
\* second cancel_tasks() would find nothing to cancel or to wait for.
C11_CancelTasksLeavesNothingRunnable ==
    [][CancelTasksReturns =>
          /\ timeouts' = {}
          /\ \A t \in BagToSet(tasks') : t.status = "finished"]_vars

\* the response is an error envelope with this code
is_error(response, code) ==
    /\ "error" \in DOMAIN response.body
    /\ response.body.error.code = code

\* C12: a Trigger_X call made while X is not among the triggers available
\* from the current state answers with HTTP 200 and an error envelope of code
\* failed_precondition whose message names X, the current state and the
\* allowed triggers, and leaves current_state, history and timeouts as they
\* were.
C12_RpcTriggerNotAllowed ==
    [][(op'.name = "rpc" /\ op' # op /\ op'.arg \notin get_triggers(state)) =>
          /\ op'.response.status_code = 200
          /\ is_error(op'.response, "failed_precondition")
          /\ op'.response.body.error.message =
                 [trigger |-> op'.arg, current |-> state, allowed |-> get_triggers(state)]
          /\ UNCHANGED <<state, history, timeouts>>]_vars

C12_Witness ==
    /\ op.name = "rpc" /\ op.arg = "picked"
    /\ state = "run_deep_a"
    /\ timeouts # {}
    /\ op.response = JSONResponse(error_envelope(ConnectError("failed_precondition",
           [trigger |-> "picked", current |-> "run_deep_a", allowed |-> {"stop", TO_FAULT}])))

\* C13: a Trigger_X call made while X is available from the current state
\* and the guard of X returns false answers with an error envelope of code
\* failed_precondition and leaves the state as it was.
C13_RpcGuardFailed ==
    [][(/\ op'.name = "rpc" /\ op' # op
        /\ op'.arg \in guarded /\ ~op'.guard
        /\ op'.arg \in get_triggers(state)) =>
          /\ is_error(op'.response, "failed_precondition")
          /\ state' = state]_vars

\* what a subscriber has read, followed by what it will read next
stream_of(t, sub) == t.reads[sub] \o t.queue[sub]

\* nothing is left to distribute
quiescent(t) == t.publish_queue = <<>> /\ t.task.pc = "get"

increasing(q) == \A i \in 1..(Len(q) - 1) : q[i] < q[i + 1]

contiguous(q) == \A i \in 1..(Len(q) - 1) : q[i + 1] = q[i] + 1

\* under fifo the distributor waits for room in the queue of a subscriber
\* whose stream handler has ended: no one will make that room
stuck(t) == blocked(t) /\ Head(t.task.todo) \notin t.reading

\* C14: under fifo, what a subscriber reads is a run of consecutive items in
\* publish order that starts no later than the first item published after it
\* joined, and a subscriber that keeps reading gets every item published
\* after it joined: an item it has not received yet is in the publish queue
\* or in the hands of the distributor, which is not waiting for good.
C14_FifoDeliversEveryItemInOrder ==
    Topic.entry.policy = "fifo" =>
        \A sub \in 1..Len(Topic.queue) :
            /\ contiguous(stream_of(Topic, sub))
            /\ stream_of(Topic, sub) # <<>> =>
                  stream_of(Topic, sub)[1] <= Topic.joined[sub].published + 1
            /\ sub \in Topic.reading =>
                  \A k \in (Topic.joined[sub].published + 1)..Topic.published :
                      \/ k \in Range(stream_of(Topic, sub))
                      \/ /\ ~stuck(Topic)
                         /\ \/ k \in Range(Topic.publish_queue)
                            \/ /\ Topic.task.pc = "put" /\ Topic.task.item = k
                               /\ sub \in Range(Topic.task.todo)

\* C15: under latest, the items a subscriber reads, a replayed one included,
\* are in publish order: each is newer than the ones read before it.
C15_LatestReadsInPublishOrder ==
    Topic.entry.policy = "latest" =>
        \A sub \in 1..Len(Topic.queue) : increasing(stream_of(Topic, sub))

C15_Witness ==
    /\ Topic.entry.policy = "latest" /\ Topic.entry.replay
    /\ Len(Topic.queue) >= 1
    /\ Topic.joined[1].taken = 1
    /\ Topic.reads[1] = <<1, 3>>

\* C16: under latest with queue_maxsize = 1, a subscriber that has read
\* nothing while items were published and distributed has the most recent
\* item, and nothing else, as its next read.
C16_LatestKeepsMostRecent ==
    (Topic.entry.policy = "latest" /\ Topic.entry.queue_maxsize = 1) =>
        \A sub \in Topic.subscribers :
            (/\ Topic.reads[sub] = <<>> /\ quiescent(Topic)
             /\ Topic.taken > Topic.joined[sub].taken) =>
                Topic.queue[sub] = <<Topic.published>>

C16_Witness ==
    /\ Topic.entry.policy = "latest" /\ Topic.entry.queue_maxsize = 1
    /\ 1 \in Topic.subscribers
    /\ Topic.joined[1].published = 0
    /\ Topic.reads[1] = <<>>
    /\ quiescent(Topic)
    /\ Topic.queue[1] = <<3>>

\* C17 as stated: under fifo with queue_maxsize = 1, while the first item of
\* a subscriber is unread and the next one waits for room in its queue, the
\* publisher is blocked: no publish returns.
C17_PublisherBlocks ==
    [][(/\ Topic.entry.policy = "fifo" /\ Topic.entry.queue_maxsize = 1
        /\ blocked(Topic)
        /\ Topic.reads[Head(Topic.task.todo)] = <<>>) =>
            Topic'.published = Topic.published]_vars

\* C17 amended: under fifo with queue_maxsize = 1, while a subscriber has not read
\* its first item, that item is the only one in its queue and every later
\* item is still to come: in the publish queue, or in the hands of the
\* distributor, which waits with the subscriber still to serve.
C17_FifoHoldsBackSecondItem ==
    (Topic.entry.policy = "fifo" /\ Topic.entry.queue_maxsize = 1) =>
        \A sub \in Topic.subscribers :
            (Topic.reads[sub] = <<>> /\ Topic.queue[sub] # <<>>) =>
                /\ Len(Topic.queue[sub]) = 1
                /\ Head(Topic.queue[sub]) <= Topic.joined[sub].published + 1
                /\ \A k \in (Head(Topic.queue[sub]) + 1)..Topic.published :
                      \/ k \in Range(Topic.publish_queue)
                      \/ /\ Topic.task.pc = "put" /\ Topic.task.item = k
                         /\ sub \in Range(Topic.task.todo)

C17_Witness ==
    /\ Topic.entry.policy = "fifo" /\ Topic.entry.queue_maxsize = 1
    /\ 1 \in Topic.subscribers
    /\ Topic.reads[1] = <<>> /\ Topic.queue[1] = <<1>>
    /\ Topic.task.pc = "put" /\ Topic.task.item = 2 /\ Topic.task.todo = <<1>>
    /\ Topic.publish_queue = <<3>>

\* the step is a subscribe
Subscribed == Len(Topic'.queue) = Len(Topic.queue) + 1

\* a subscriber that arrived after exactly one publish, on a stream with
\* replay and queue_maxsize = 1, gets that item once and nothing else
one_value(t) ==
    (t.entry.replay /\ t.entry.queue_maxsize = 1 /\ t.published = 1) =>
        \A sub \in 1..Len(t.queue) :
            t.joined[sub].published = 1 =>
                /\ stream_of(t, sub) \in {<<>>, <<1>>}
                /\ (sub \in t.subscribers /\ quiescent(t)) => stream_of(t, sub) = <<1>>

\* C18: the queue of a new subscriber holds last_value, and nothing else,
\* when the stream replays and last_value is set, and is empty otherwise;
\* with replay and queue_maxsize = 1, a subscriber that arrives after exactly
\* one publish receives exactly that value.
C18_SubscribeSeedsLastValue ==
    [][/\ Subscribed =>
            Last(Topic'.queue) = IF Topic.entry.replay /\ Topic.last_value # NoItem
                                 THEN <<Topic.last_value>> ELSE <<>>
       /\ one_value(Topic')]_vars

C18_Witness ==
    /\ Topic.entry.replay /\ Topic.entry.queue_maxsize = 1
    /\ Topic.published = 1 /\ Topic.last_value = 1
    /\ Len(Topic.queue) = 1
    /\ Topic.joined[1] = [published |-> 1, taken |-> 1]
    /\ Topic.reads[1] = <<1>> /\ Topic.queue[1] = <<>>

C20_LastValueSetByPublish ==
    Topic.last_value = Topic.published

\* C20 amended: last_value is the item the distributor took last, set when
\* it takes the item and before the item is in any subscriber's queue; until
\* then it is the previous item, and a new subscriber is seeded with it.
C20_LastValueSetByDistributor ==
    /\ Topic.last_value = Topic.taken
    /\ Topic.task.pc = "put" => Topic.task.item = Topic.last_value
    /\ \A sub \in 1..Len(Topic.queue) :
          \A i \in 1..Len(stream_of(Topic, sub)) :
              stream_of(Topic, sub)[i] <= Topic.last_value

C20_Witness ==
    /\ Topic.entry.replay
    /\ Len(Topic.queue) >= 1
    /\ Topic.joined[1] = [published |-> 2, taken |-> 1]
    /\ stream_of(Topic, 1) = <<1, 2>>

\* the generator of the handler is over or will never run
handler_gone(sub) == handlers[sub].pc \in {"exited", "dropped"}

\* C21: once a stream handler has exited, by an error, by a disconnect at any
\* moment after subscribe or otherwise, its subscriber is no longer in the
\* topic's subscriber set.
C21_HandlerExitUnsubscribes ==
    \A sub \in 1..Len(handlers) : handler_gone(sub) => sub \notin Topic.subscribers

\* C22: the distributor survives any sequence of publish, subscribe and
\* unsubscribe: while an item is in the publish queue or in its hands, it
\* can go on, or waits for room that a subscriber still reading will make.
C22_DistributorSurvivesChurn ==
    \A k \in 1..Topic.published :
        (\/ k \in Range(Topic.publish_queue)
         \/ Topic.task.pc = "put" /\ Topic.task.item = k) =>
            \/ runnable(Topic)
            \/ blocked(Topic) /\ Head(Topic.task.todo) \in Topic.reading

\* C23: in every reachable broker state the queue of every subscriber holds
\* at most queue_maxsize items.
C23_QueueWithinMaxsize ==
    \A sub \in 1..Len(Topic.queue) :
        Len(Topic.queue[sub]) <= Topic.entry.queue_maxsize

\* C24: publish on a known stream returns without waiting, whatever the
\* policy, the subscribers and the fullness of their queues, and touches
\* nothing but the publish queue: the subscriber queues and the distributor
\* are as they were.
C24_PublishNeverWaits ==
    [][/\ Topic.published < MaxItems => ENABLED Publish
       /\ Topic'.published # Topic.published =>
             /\ Topic'.publish_queue = Append(Topic.publish_queue, Topic'.published)
             /\ Topic'.queue = Topic.queue
             /\ Topic'.task = Topic.task
             /\ Topic'.last_value = Topic.last_value]_vars

C24_Witness ==
    /\ Topic.subscribers = {1, 2}
    /\ blocked(Topic)
    /\ \A sub \in 1..2 : full(Topic, sub) /\ Topic.joined[sub].published = 0
    /\ Topic.published = 3
    /\ Topic.publish_queue = <<3>>

\* the handler got an item whose serialization raised
failed(sub) == \E i \in 1..Len(Topic.reads[sub]) : Topic.reads[sub][i] \in Unserializable

\* the trailer frames among the frames the handler has emitted
trailers(sub) ==
    {i \in 1..Len(handlers[sub].frames) : handlers[sub].frames[i] = TrailerFlag}

\* C25: a stream handler that failed with an error other than a cancellation
\* has emitted exactly one trailer frame, and it is its last frame; a handler
\* that has not failed, cancelled or not, has emitted no trailer frame.
C25_OneTrailerLast ==
    \A sub \in 1..Len(handlers) :
        /\ failed(sub) => trailers(sub) = {Len(handlers[sub].frames)}
        /\ ~failed(sub) => trailers(sub) = {}

C25_Witness ==
    /\ Len(handlers) = 2
    /\ handlers[1].pc = "exited" /\ handlers[1].frames = <<DataFlag, TrailerFlag>>
    /\ handlers[2].pc = "exited" /\ handlers[2].frames = <<DataFlag>>

\* the code the envelope of an exception of the class must carry
code_for(cls) ==
    CASE cls = "TimeoutError" -> "deadline_exceeded"
      [] cls \in {"KeyError", "ValueError"} -> "invalid_argument"
      [] cls = "PermissionError" -> "permission_denied"
      [] OTHER -> "internal"

\* the response is an error envelope
has_error(response) == "error" \in DOMAIN response.body

\* C26: every error envelope carries one of the 16 codes: the code of the
\* ConnectError raised, or unknown when it was made with a code outside the
\* set; deadline_exceeded for a timeout, invalid_argument for a key error or
\* a value error, permission_denied for a permission error, internal for
\* any other exception.
C26_EnvelopeCodes ==
    (request # <<>> /\ has_error(request.response)) =>
        /\ request.response.body.error.code \in CONNECT_CODE_MAP
        /\ Cardinality(CONNECT_CODE_MAP) = 16
        /\ request.invoked =>
              request.response.body.error.code =
                  IF request.outcome.cls # "ConnectError" THEN code_for(request.outcome.cls)
                  ELSE IF request.outcome.code \in CONNECT_CODE_MAP THEN request.outcome.code
                  ELSE "unknown"
        /\ ~request.invoked => request.response.body.error.code = "invalid_argument"

C26_Witness ==
    /\ request # <<>>
    /\ request.invoked
    /\ request.outcome.cls = "ConnectError" /\ request.outcome.code = "bogus"
    /\ has_error(request.response)
    /\ request.response.body.error.code = "unknown"

\* C27: a unary request whose body is not JSON, or fails the validation of
\* the declared input type, gets an invalid_argument envelope, and the
\* action function is not called.
C27_InvalidInputRejected ==
    (/\ request # <<>>
     /\ \/ request.body = "malformed"
        \/ request.input_type # None /\ validation_fails(request.input_type, request.body)) =>
        /\ ~request.invoked
        /\ is_error(request.response, "invalid_argument")

\* C28: however many times normalization runs, on one registry or on
\* several, aliases are applied to each model at most once, and a model that
\* has its aliases has for every field the camelCase alias of its name.
C28_AliasesAppliedOnce ==
    \A model \in Models :
        /\ registry.applied[model] <= 1
        /\ registry.applied[model] >= 1 =>
              \A name \in model_fields[model] :
                  registry.alias[model][name] = camelize(name)

\* C29: when the timeout of a state S whose enter hook carries
\* auto_timeout(t, to_fault) fires, the to_fault runs to completion and the
\* machine is in fault with last_recoverable_state = S.
C29_AutoTimeoutEndsInFault ==
    (op.name = "wake" /\ op.fired /\ timeout_config(op.arg) = TO_FAULT) =>
        /\ op.error = None
        /\ state = FAULT
        /\ last_state = op.arg

\* C30: a delayed-trigger task that was sleeping when to_fault was fired
\* fires no trigger afterwards, and the machine leaves fault by reset only.
C30_NoTriggerAfterFault ==
    [][/\ \A t \in BagToSet(tasks) : (t.mark = "faulted" /\ Wake(t)) => ~op'.fired
       /\ (state = FAULT /\ state' # FAULT) => (op'.name = "trigger" /\ op'.arg = RESET)]_vars

\* the capacity the history_size argument stands for
capacity == IF history_size = <<>> THEN DEFAULT_HISTORY_SIZE ELSE history_size[1]

\* how many history records the call with this log appended
appended(log) ==
    Cardinality({i \in DOMAIN log : log[i] = <<"after", "_record_history_event">>})

Min(a, b) == IF a <= b THEN a ELSE b

\* new is what k appends leave of old: min(Len(old) + k, capacity) entries,
\* those before the k new ones being the newest entries of old, in order
newest_kept(old, new, k) ==
    /\ Len(new) = Min(Len(old) + k, capacity)
    /\ \A i \in 1..(Len(new) - k) :
          new[i].state = old[Len(old) - (Len(new) - k) + i].state

\* the step is the call fsm.trigger(name) that ended as m
call_left(m, name) ==
    /\ op'.name = "trigger" /\ op'.arg = name /\ op'.error = m.error
    /\ state' = m.state /\ history' = m.history /\ last_state' = m.last_state

history_after(m, name) ==
    call_left(m, name) => newest_kept(history, history', appended(m.log))

\* C31: the history never holds more than history_size entries, and every
\* trigger call leaves the min(number of transitions, history_size) most
\* recent entries in order, the oldest dropped first.
C31_HistoryKeepsNewest ==
    [][/\ Len(history') <= capacity
       /\ \A name \in events :
             (op'.name = "trigger" /\ op'.arg = name) =>
                 \A g \in guard_results(name) :
                     history_after(trigger([Self EXCEPT !.guard = g], name), name)]_vars

\* the payload the serialization rule gives an item
rule_payload(item) ==
    CASE item.kind = "model" -> model_dump(item, TRUE)
      [] item.kind \in {"dict", "list", "tuple"} -> item
      [] OTHER -> wrapped(item)

\* C32: the data frame payload of a stream item is its model dump with
\* aliases when the item is a model, the item itself when it is a mapping
\* or a sequence, and the wrapper object {"value": item} otherwise.
C32_PayloadFollowsRule ==
    frame # <<>> => frame.body = json_dumps(rule_payload(frame.item))

\* whether a step of kind entry[1] may come next in an invocation that has
\* got as far as `reached`: 0 nothing yet, 1 before callbacks, 2 exit hooks,
\* 3 the state change, 4 enter hooks, 5 the history record
step_allowed(reached, entry) ==
    CASE entry[1] = "before" -> reached <= 1
      [] entry[1] = "exit" -> reached <= 2
      [] entry[1] = "state" -> reached <= 2
      [] entry[1] = "enter" -> reached \in {3, 4}
      [] entry = <<"after", "_record_history_event">> -> reached \in {3, 4}
      [] entry = <<"after", "_attach_exit_timeout_clear">> -> reached = 5
      [] OTHER -> FALSE

reached_by(entry) ==
    CASE entry[1] = "before" -> 1
      [] entry[1] = "exit" -> 2
      [] entry[1] = "state" -> 3
      [] entry[1] = "enter" -> 4
      [] OTHER -> 5

\* the steps of a call are in order: stack holds how far each invocation in
\* progress has got, the innermost first; an invocation fired from an enter
\* hook runs inside the enter step of the one that entered the state; a
\* call that completed has left no invocation unfinished
RECURSIVE in_order(_, _, _)
in_order(log, stack, completed) ==
    IF log = <<>> THEN completed => stack = <<>>
    ELSE IF Head(log)[1] = "trigger" THEN in_order(Tail(log), <<0>> \o stack, completed)
    ELSE /\ stack # <<>>
         /\ step_allowed(Head(stack), Head(log))
         /\ in_order(Tail(log),
                     IF Head(log) = <<"after", "_attach_exit_timeout_clear">>
                     THEN Tail(stack)
                     ELSE <<reached_by(Head(log))>> \o Tail(stack),
                     completed)

steps_in_order(m, name) ==
    call_left(m, name) => in_order(m.log, <<>>, m.error = None /\ m.result)

\* C33: in every accepted trigger invocation the before callbacks run first,
\* then the exit hooks of the states left, then the state changes, then the
\* enter hooks of the states entered, then the after callbacks: the history
\* record, then the clearing of the source state's timeout.
C33_StepsInOrder ==
    [][\A name \in events :
          (op'.name = "trigger" /\ op'.arg = name) =>
              \A g \in guard_results(name) :
                  steps_in_order(trigger([Self EXCEPT !.guard = g], name), name)]_vars

\* picked was accepted: run_pick was left, run_show entered, and its enter
\* hook fired shown, which was accepted in turn
C33_Witness ==
    /\ op.name = "trigger" /\ op.arg = "picked" /\ op.fired /\ op.error = None
    /\ state = "run_deep_a"

\* the transition fsm.trigger(name) takes from the current state
resolved(name) == Head(transitions_for(name, Head(sources_for(name, state))))

\* the callback runs before the state changes in the call fsm.trigger(name)
\* itself: its guard, one of its before callbacks, an exit hook of a state
\* it leaves
before_mutation(cb, name) ==
    \/ cb.kind = "guard" /\ cb.at = name
    \/ cb.kind = "before" /\ cb.at \in Range(resolved(name).before)
    \/ cb.kind = "exit" /\ cb.at \in Range(exit_names(state, resolved(name).dest))

\* C34: when a callback raises, the trigger call ends with its exception; a
\* guard, a before callback or an exit hook of the call leaves the state,
\* the history and the last state as they were; otherwise the exception came
\* out of an enter hook and the machine is in the new state: the state the
\* call entered, which the raising enter hook belongs to.  (A step of the
\* event loop leaves op and the state alone.)
C34_HookErrorPropagates ==
    [][(op'.name = "trigger" /\ op'.error = "HookError" /\ (op' # op \/ state' # state)) =>
          IF before_mutation(op'.raised, op'.arg)
          THEN state' = state /\ history' = history /\ last_state' = last_state
          ELSE /\ op'.raised.at \in Range(enter_names(state, resolved(op'.arg).dest)) =>
                    state' = Last(enter_names(state, resolved(op'.arg).dest))
               /\ op'.raised.kind = "enter" => op'.raised.at \in Range(state_path[state'])
               /\ op'.raised.kind # "enter" =>
                    state' = Last(enter_names(state, resolved(op'.arg).dest))
               /\ history' = history]_vars

\* the enter hook of run_show raised in picked, or a callback of the shown
\* that hook fires: the machine is in run_show
C34_Witness ==
    /\ op.name = "trigger" /\ op.arg = "picked" /\ op.error = "HookError"
    /\ state = "run_show"

\* the step is the call fsm.trigger(name) that ended as m, and the call did
\* nothing: no callback ran, and the state, the history, the last state,
\* the timeouts and the tracked tasks are as they were
quiet(m, name) ==
    (call_left(m, name) /\ op' # op) =>
        /\ m.log = << <<"trigger", name>> >>
        /\ state' = state /\ history' = history /\ last_state' = last_state
        /\ timeouts' = timeouts /\ tasks' = tasks

\* C35: a trigger with no transition from the current state, or whose guard
\* is false, changes nothing and runs no before, exit, enter or after hook.
C35_RejectedTriggerChangesNothing ==
    [][\A name \in events :
          (op'.name = "trigger" /\ op'.arg = name /\ op' # op) =>
              /\ sources_for(name, state) = <<>> => quiet(trigger(Self, name), name)
              /\ name \in guarded =>
                    quiet(trigger([Self EXCEPT !.guard = FALSE], name), name)]_vars

\* stop was called in run_pick, where it has a transition and a timeout is
\* pending, and its guard was false
C35_Witness ==
    /\ op.name = "trigger" /\ op.arg = "stop" /\ ~op.fired /\ op.error = None
    /\ state = "run_pick" /\ timeouts # {}

\* the event loop has nothing ready to run: no done callback, no
\* cancellation to deliver
loop_idle ==
    ~ENABLED (\E t \in BagToSet(tasks) : DoneCallback(t) \/ DeliverCancel(t))

\* C36: a task stays in the tracked set until it has finished, and its done
\* callback then takes it out: the set gets smaller only by the done
\* callback of a finished task, and whenever the event loop has nothing
\* ready to run the set holds no finished task.
C36_TrackedUntilDone ==
    /\ [](loop_idle => \A t \in BagToSet(tasks) : t.status # "finished")
    /\ [][BagCardinality(tasks') < BagCardinality(tasks) =>
             \E t \in BagToSet(tasks) : t.status = "finished" /\ DoneCallback(t)]_vars

\* a task woke up, ran to its end and has left the tracked set
C36_Witness ==
    /\ op.name = "wake"
    /\ tasks = EmptyBag
    /\ loop_idle

\* C37: once a trigger call has completed a transition and left the machine
\* in a state whose enter handler carries auto_timeout, a timeout for that
\* state is pending in self._timeouts, whatever state the transition came
\* from.
C37_TimeoutPendingAfterEntry ==
    (op.name \in {"start", "trigger", "wake"} /\ op.fired /\ op.error = None
        /\ timeout_config(state) # None) =>
        state \in timeouts

\* what a subscriber has been given so far: what its handler has read, then
\* what waits in its queue
received(t, sub) == t.reads[sub] \o t.queue[sub]

\* C38: no subscriber is given the same published item twice; the item that
\* replay put in its queue when it subscribed is not among those the
\* distributor gives it afterwards.
C38_NoItemTwice ==
    \A sub \in 1..Len(Topic.queue) :
        \A i, j \in 1..Len(received(Topic, sub)) :
            received(Topic, sub)[i] = received(Topic, sub)[j] => i = j

\* a subscriber got the last value by replay and then an item from the
\* distributor
C38_Witness ==
    \E sub \in 1..Len(Topic.queue) :
        /\ Topic.entry.replay
        /\ Topic.joined[sub].taken > 0
        /\ Len(received(Topic, sub)) >= 2
        /\ received(Topic, sub)[1] = Topic.joined[sub].taken

\* C39: the distributor marks no subscriber dead, and a subscriber leaves
\* the subscriber set of the topic only by unsubscribe, however full its
\* queue is and whichever policy the stream has.
C39_OnlyUnsubscribeRemoves ==
    [][/\ Topic'.task.dead = <<>>
       /\ \A sub \in Topic.subscribers \ Topic'.subscribers :
             Topic' = unsubscribe(Topic, sub)]_vars

\* a subscriber that reads nothing has lost an item to a full queue under
\* "latest" and is still subscribed
C39_Witness ==
    \E sub \in Topic.subscribers :
        /\ Topic.entry.policy = "latest"
        /\ Topic.entry.queue_maxsize >= 1
        /\ Topic.reads[sub] = <<>>
        /\ full(Topic, sub)
        /\ Topic.task.pc = "get"
        /\ Topic.taken - Topic.joined[sub].taken > Len(Topic.queue[sub])

\* the models reachable from the types in todo through the fields of models
RECURSIVE reachable_models(_, _)
reachable_models(todo, seen) ==
    IF todo \subseteq seen THEN seen
    ELSE reachable_models((todo \ seen) \cup UNION {nested_models[model] : model \in todo},
                          seen \cup todo)

\* apply_aliases has run on the model, which gave every field its alias
aliased(reg, model) == reg.applied[model] > 0

\* C40: whatever add_bundle and get_unified_bundle calls a registry has had,
\* a get_unified_bundle call returns a bundle in which every model reachable
\* from an action or a stream has its camelCase aliases.
C40_UnifiedBundleAliased ==
    \A r \in Registries :
        registry.bundles[r] # {} =>
            \A model \in reachable_models(registry.bundles[r], {}) :
                aliased(normalize_models_and_apply_aliases(registry, r), model)

====
